---------------------------- MODULE Spec2Model ----------------------------
(***************************************************************************)
(* Model of the database classifier: the Scan Orchestrator (StartScan, the *)
(* detached scan body performScan, CancelScan) over the Result Store, and  *)
(* the Classification Engine (pattern compilation, ClassifyColumn, the     *)
(* hot reload triggered by pattern create / update / delete).              *)
(***************************************************************************)
EXTENDS Integers, Sequences, FiniteSets, TLC

(***************************************************************************)
(* Bounds of the model.                                                    *)
(***************************************************************************)
\* number of CancelScan calls that can be in progress at the same time
MaxCancels == 1
\* number of pattern create / update / delete calls that can be in progress
\* at the same time
MaxReloads == 1
\* number of ClassifyColumn calls that can be in progress at the same time
MaxReaders == 1

ReloadIds == 1..MaxReloads
ReaderIds == 1..MaxReaders
\* the addresses of classifier.Classifier objects; 0 is nil
ObjIds == 1..(1 + MaxReloads + MaxReaders)

\* the values uuid.New() hands out to StartScan; uuid.Nil is "nil"
ScanIds == {"scan-a", "scan-b"}

(***************************************************************************)
(* Strings are sequences of one-character strings, so that trimming,       *)
(* lower-casing, substring search and regex matching are computed.         *)
(***************************************************************************)
S_ssn == <<"s", "s", "n">>
S_user_ssn == <<"u", "s", "e", "r", "_", "s", "s", "n">>
S_id == <<"i", "d">>
S_email == <<"e", "m", "a", "i", "l">>
S_notes == <<"n", "o", "t", "e", "s">>
S_bad == <<"(", "i", "d">>
S_user == <<"u", "s", "e", "r">>
S_name == <<"n", "a", "m", "e">>
S_s == <<"s">>
S_empty == <<"^", "$">>
S_spaces == <<" ", " ">>
S_ID_padded == <<" ", "I", "D">>
S_nino_name == <<"n", "i", "ñ", "o", "_", "n", "a", "m", "e">>

\* the bytes of the UTF-8 encoding of a character
Utf8Len(ch) == IF ch = "ñ" THEN 2 ELSE 1

\* len(s) of a Go string: the number of its bytes
RECURSIVE ByteLen(_)
ByteLen(s) == IF s = <<>> THEN 0 ELSE Utf8Len(Head(s)) + ByteLen(Tail(s))

\* strings.Contains(s, sub)
Contains(s, sub) ==
    \E i \in 0..(Len(s) - Len(sub)) : SubSeq(s, i + 1, i + Len(sub)) = sub

\* unicode.ToLower on the letters the model uses
LowerChar(ch) ==
    CASE ch = "S" -> "s"
      [] ch = "N" -> "n"
      [] ch = "I" -> "i"
      [] ch = "D" -> "d"
      [] OTHER -> ch

\* strings.ToLower
ToLower(s) == [i \in 1..Len(s) |-> LowerChar(s[i])]

IsSpace(ch) == ch = " "

\* strings.TrimSpace
RECURSIVE TrimLeft(_)
TrimLeft(s) == IF s # <<>> /\ IsSpace(Head(s)) THEN TrimLeft(Tail(s)) ELSE s
RECURSIVE TrimRight(_)
TrimRight(s) ==
    IF s # <<>> /\ IsSpace(s[Len(s)]) THEN TrimRight(SubSeq(s, 1, Len(s) - 1)) ELSE s
TrimSpace(s) == TrimRight(TrimLeft(s))

(***************************************************************************)
(* Regular expressions.  The dialect of the model: a literal, optionally   *)
(* anchored by a leading ^ and a trailing $; an opening parenthesis is     *)
(* never closed, so regexp.Compile rejects every text that holds one.      *)
(***************************************************************************)
\* regexp.Compile succeeds
Compiles(text) == \A i \in 1..Len(text) : text[i] # "("

AnchoredStart(text) == text # <<>> /\ Head(text) = "^"
AnchoredEnd(text) == text # <<>> /\ text[Len(text)] = "$"
Literal(text) ==
    LET a == IF AnchoredStart(text) THEN Tail(text) ELSE text
    IN  IF a # <<>> /\ a[Len(a)] = "$" THEN SubSeq(a, 1, Len(a) - 1) ELSE a

\* the start offsets (0-based) at which the compiled text matches s
MatchOffsets(text, s) ==
    {i \in 0..(Len(s) - Len(Literal(text))) :
        /\ SubSeq(s, i + 1, i + Len(Literal(text))) = Literal(text)
        /\ AnchoredStart(text) => i = 0
        /\ AnchoredEnd(text) => i + Len(Literal(text)) = Len(s)}

\* regex.MatchString(s)
MatchString(text, s) == MatchOffsets(text, s) # {}

\* regex.FindString(s): the leftmost match, "" when there is none
FindString(text, s) == IF MatchString(text, s) THEN Literal(text) ELSE <<>>


(***************************************************************************)
(* Information types and the pattern records of the Pattern Store.         *)
(***************************************************************************)
InfoTypeNA == "N/A"
InfoTypes == {"SSN", "EMAIL_ADDRESS", "ACCOUNT_NUMBER", "USERNAME"}

\* a row of classification_patterns (domain.ClassificationPattern)
ClassificationPattern(id, infoType, text, priority, createdAt) ==
    [id |-> id, informationType |-> infoType, pattern |-> text,
     priority |-> priority, isActive |-> TRUE, createdAt |-> createdAt]

\* the rows the store holds when the service is constructed
SeedPatterns ==
    {ClassificationPattern("p1", "SSN", S_ssn, 90, 1),
     ClassificationPattern("p2", "EMAIL_ADDRESS", S_email, 80, 2),
     ClassificationPattern("p3", "ACCOUNT_NUMBER", S_id, 50, 3)}

\* the values uuid.New() hands out to CreatePattern
PatternIds == {"p1", "p2", "p3", "p4"}

\* domain.CreatePatternRequest: the requests callers send
CreatePatternRequest(infoType, text, priority) ==
    [informationType |-> infoType, pattern |-> text, priority |-> priority]
Requests ==
    {CreatePatternRequest("USERNAME", S_user, 90),
     CreatePatternRequest("ACCOUNT_NUMBER", S_bad, 70)}
\* the ids callers pass to UpdatePattern and DeletePattern
MutatedIds == {"p4"}
\* the names callers pass to ClassifyColumn
ColumnNames == {S_user_ssn, S_id}

\* the bijections of 1..n
Perms(n) == {p \in [1..n -> 1..n] : \A i, j \in 1..n : i # j => p[i] # p[j]}

\* the orders of seq, less given as the pairs <<i, j>> with seq[i] less than
\* seq[j]: every permutation of seq in which no element is followed by one
\* that is less than it
OrderBy(seq, less) ==
    {[i \in 1..Len(seq) |-> seq[p[i]]] : p \in
        {q \in Perms(Len(seq)) :
            \A i, j \in 1..Len(seq) : i < j => <<q[j], q[i]>> \notin less}}

\* sort.Slice "is not guaranteed to be stable": where it leaves elements
\* neither of which is less than the other is up to the algorithm of the Go
\* release the binary was built with.  The algorithm is a function of its
\* input, so a build orders them the same way every time
TieOrders == {"kept", "reversed"}
VARIABLE tieOrder

\* a variant of sort.Slice that orders equal elements anew at every call
SortSliceUnspecified(seq, less) == OrderBy(seq, less)

\* sort.Slice(seq, less): the order this build gives seq
SortSlice(seq, less) ==
    {[i \in 1..Len(seq) |-> seq[p[i]]] : p \in
        {q \in Perms(Len(seq)) :
            \A i, j \in 1..Len(seq) : i < j =>
                /\ <<q[j], q[i]>> \notin less
                /\ <<q[i], q[j]>> \notin less =>
                      IF tieOrder = "kept" THEN q[i] < q[j] ELSE q[i] > q[j]}}

\* the elements of a finite set, in some order
SeqOf(set) ==
    CHOOSE seq \in [1..Cardinality(set) -> set] : \A x \in set : \E i \in DOMAIN seq : seq[i] = x

\* ORDER BY priority DESC, created_at DESC
GetActiveLess(a, b) ==
    \/ a.priority > b.priority
    \/ a.priority = b.priority /\ a.createdAt > b.createdAt

\* ClassificationPatternRepository.GetActive: the active rows, in the
\* order of the query (rows equal in both keys come in either order)
GetActive(rows) ==
    LET active == SeqOf({r \in rows : r.isActive})
    IN  OrderBy(active, {ij \in (DOMAIN active) \X (DOMAIN active) :
                              GetActiveLess(active[ij[1]], active[ij[2]])})

\* classifier.Pattern, the regex kept as the text it was compiled from
CompiledPattern(p) ==
    [informationType |-> p.informationType, pattern |-> p.pattern,
     priority |-> p.priority, regex |-> p.pattern]

PriorityLess(a, b) == a.priority > b.priority

\* SetPatterns fails: some pattern does not compile
SetPatternsFails(patterns) == \E i \in 1..Len(patterns) : ~Compiles(patterns[i].pattern)

\* the pattern named by the error SetPatterns returns: the first that fails
SetPatternsError(patterns) ==
    patterns[CHOOSE i \in 1..Len(patterns) :
                /\ ~Compiles(patterns[i].pattern)
                /\ \A j \in 1..(i - 1) : Compiles(patterns[j].pattern)].pattern

\* SetPatterns succeeds: the values c.patterns can get
SetPatterns(patterns) ==
    LET compiled == [i \in 1..Len(patterns) |-> CompiledPattern(patterns[i])]
    IN  SortSlice(compiled, {ij \in (DOMAIN compiled) \X (DOMAIN compiled) :
                                PriorityLess(compiled[ij[1]], compiled[ij[2]])})

(***************************************************************************)
(* ClassifyColumn of the classifier.  Scores are in hundredths.            *)
(***************************************************************************)
commonWords ==
    {<<"i", "d">>, <<"n", "a", "m", "e">>, <<"n", "u", "m", "b", "e", "r">>,
     <<"d", "a", "t", "e">>, <<"t", "i", "m", "e">>,
     <<"s", "t", "a", "t", "u", "s">>, <<"t", "y", "p", "e">>}

Clamp(x) == IF x > 100 THEN 100 ELSE IF x < 0 THEN 0 ELSE x

calculateConfidenceScore(columnName, pattern) ==
    LET baseScore == pattern.priority
        exactMatch ==
            IF MatchString(pattern.regex, columnName)
            THEN IF FindString(pattern.regex, columnName) = columnName THEN 20 ELSE 10
            ELSE 0
        commonWordsPenalty ==
            IF \E word \in commonWords : Contains(columnName, word) /\ ByteLen(columnName) < 10
            THEN 10 ELSE 0
    IN  Clamp(baseScore + exactMatch - commonWordsPenalty)

NoMatch == [informationType |-> InfoTypeNA, confidenceScore |-> 0, matchedPatterns |-> <<>>]

ScoreLess(a, b) == a.score > b.score

\* a variant of the loop over c.patterns that stops at the first match
MatchesFirstOnly(patterns, cleanName) ==
    LET hits == {i \in DOMAIN patterns : MatchString(patterns[i].regex, cleanName)}
        first == CHOOSE i \in hits : \A j \in hits : i <= j
    IN  IF hits = {} THEN <<>>
        ELSE <<[pattern |-> patterns[first],
                score |-> calculateConfidenceScore(cleanName, patterns[first])]>>

\* the matches of the loop over c.patterns, in snapshot order
RECURSIVE Matches(_, _)
Matches(patterns, cleanName) ==
    IF patterns = <<>> THEN <<>>
    ELSE LET rest == Matches(Tail(patterns), cleanName)
             p == Head(patterns)
         IN  IF MatchString(p.regex, cleanName)
             THEN <<[pattern |-> p, score |-> calculateConfidenceScore(cleanName, p)]>> \o rest
             ELSE rest

\* Classifier.ClassifyColumn: the result of the call (a set, as SortSlice is)
ClassifyColumn(patterns, columnName) ==
    IF columnName = <<>> THEN {NoMatch}
    ELSE LET cleanName == ToLower(TrimSpace(columnName))
             matches == Matches(patterns, cleanName)
         IN  IF matches = <<>> THEN {NoMatch}
             ELSE {[informationType |-> sorted[1].pattern.informationType,
                    confidenceScore |-> sorted[1].score,
                    matchedPatterns |-> [i \in 1..Len(sorted) |-> sorted[i].pattern.pattern]] :
                   sorted \in SortSlice(matches,
                                         {ij \in (DOMAIN matches) \X (DOMAIN matches) :
                                             ScoreLess(matches[ij[1]], matches[ij[2]])})}

(***************************************************************************)
(* calculateRiskLevel.                                                     *)
(***************************************************************************)
highRiskTypes == {"CREDIT_CARD_NUMBER", "SSN", "PASSPORT_NUMBER", "NATIONAL_ID", "BANK_ACCOUNT"}
mediumRiskTypes == {"EMAIL_ADDRESS", "PHONE_NUMBER", "DATE_OF_BIRTH", "DRIVER_LICENSE", "ACCOUNT_NUMBER"}

RECURSIVE SumOver(_, _)
SumOver(counts, keys) ==
    IF keys = {} THEN 0
    ELSE LET k == CHOOSE x \in keys : TRUE
         IN  counts[k] + SumOver(counts, keys \ {k})

\* a variant of the comparisons of riskPercentage: at least n
PercentageAtLeast(sensitive, totalColumns, n) == sensitive * 100 >= n * totalColumns

\* riskPercentage > n, for float64(sensitive) / float64(totalColumns) * 100
PercentageAbove(sensitive, totalColumns, n) == sensitive * 100 > n * totalColumns

\* a variant of calculateRiskLevel: the level follows the percentage alone
calculateRiskLevelByPercentage(infoTypeCounts, totalColumns) ==
    IF totalColumns = 0 THEN "low"
    ELSE LET highRiskCount == SumOver(infoTypeCounts, DOMAIN infoTypeCounts \cap highRiskTypes)
             mediumRiskCount == SumOver(infoTypeCounts, DOMAIN infoTypeCounts \cap mediumRiskTypes)
             total == highRiskCount + mediumRiskCount
         IN  IF PercentageAbove(total, totalColumns, 20) THEN "critical"
             ELSE IF PercentageAbove(total, totalColumns, 15) THEN "high"
             ELSE IF PercentageAbove(total, totalColumns, 5) THEN "medium"
             ELSE "low"

calculateRiskLevel(infoTypeCounts, totalColumns) ==
    IF totalColumns = 0 THEN "low"
    ELSE LET highRiskCount == SumOver(infoTypeCounts, DOMAIN infoTypeCounts \cap highRiskTypes)
             mediumRiskCount == SumOver(infoTypeCounts, DOMAIN infoTypeCounts \cap mediumRiskTypes)
             total == highRiskCount + mediumRiskCount
         IN  IF highRiskCount > 0 /\ PercentageAbove(total, totalColumns, 20) THEN "critical"
             ELSE IF highRiskCount > 0 \/ PercentageAbove(total, totalColumns, 15) THEN "high"
             ELSE IF mediumRiskCount > 0 \/ PercentageAbove(total, totalColumns, 5) THEN "medium"
             ELSE "low"


(***************************************************************************)
(* The collaborators' data: the Connection Store and the schema the        *)
(* Schema Inspector enumerates.                                            *)
(***************************************************************************)
\* the databaseIds a caller may pass; only those of Connections have a row
DatabaseIds == {"db1", "db9"}
Connections == {"db1"}

ColumnInfo(name, dataType, isNullable, defaultValue) ==
    [columnName |-> name, dataType |-> dataType, isNullable |-> isNullable,
     defaultValue |-> defaultValue]

\* GetSchemas, GetTables and GetTableInfo of the source database
SourceSchemas == <<"app", "hr">>
SourceTables(schema) == IF schema = "app" THEN <<"orders", "users">> ELSE <<"staff">>
SourceColumns(schema, table) ==
    CASE table = "users" -> <<ColumnInfo(S_id, "int", FALSE, "nil"),
                              ColumnInfo(S_user_ssn, "varchar", TRUE, "nil")>>
      [] table = "orders" -> <<ColumnInfo(S_notes, "text", TRUE, "none")>>
      [] OTHER -> <<ColumnInfo(S_email, "varchar", TRUE, "nil"),
                    ColumnInfo(S_ssn, "varchar", FALSE, "nil")>>

(***************************************************************************)
(* The Result Store (table scan_results).                                  *)
(***************************************************************************)
ScanStatusPending == "pending"
ScanStatusRunning == "running"
ScanStatusCompleted == "completed"
ScanStatusFailed == "failed"
ScanStatusCancelled == "cancelled"
\* no row with this id
Absent == "absent"

Terminal == {ScanStatusCompleted, ScanStatusFailed, ScanStatusCancelled}

ScanSummary(totalSchemas, totalTables, totalColumns, classifiedColumns, counts, riskLevel) ==
    [totalSchemas |-> totalSchemas, totalTables |-> totalTables,
     totalColumns |-> totalColumns, classifiedColumns |-> classifiedColumns,
     informationTypesCounts |-> counts, riskLevel |-> riskLevel]

\* an empty map[InformationType]int
EmptyCounts == [t \in {} |-> 0]

\* the domain.ScanResult StartScan builds; completedAt is set or not
ScanResult(databaseID) ==
    [databaseID |-> databaseID, status |-> ScanStatusPending, completedAt |-> FALSE,
     errorMessage |-> "", schemas |-> <<>>,
     summary |-> ScanSummary(0, 0, 0, 0, EmptyCounts, "")]

NoRow == [ScanResult("nil") EXCEPT !.status = Absent]

\* a variant of Create: the row is inserted as Running
CreateRunning(result) == [result EXCEPT !.status = ScanStatusRunning]

\* ScanResultRepository.Create: the row inserted
Create(result) == result

\* a variant of UpdateStatus: the UPDATE sets the status column alone
UpdateStatusColumn(row, status, errorMessage) == [row EXCEPT !.status = status]

\* a variant of UpdateStatus: completed_at is set for the two statuses the
\* scan body ends with
UpdateStatusStampsBodyEnd(row, status, errorMessage) ==
    [row EXCEPT !.status = status,
                !.completedAt = (status \in {ScanStatusCompleted, ScanStatusFailed}),
                !.errorMessage = errorMessage]

\* a variant of UpdateStatus: an empty message leaves error_message as it is
UpdateStatusKeepsMessage(row, status, errorMessage) ==
    [row EXCEPT !.status = status,
                !.completedAt = (status \in Terminal),
                !.errorMessage = IF errorMessage = "" THEN @ ELSE errorMessage]

\* ScanResultRepository.UpdateStatus: the row after the UPDATE
UpdateStatus(row, status, errorMessage) ==
    [row EXCEPT !.status = status,
                !.completedAt = (status \in Terminal),
                !.errorMessage = errorMessage]

\* a variant of Update: the UPDATE leaves the status column out
UpdateWithoutStatus(row, result) ==
    [row EXCEPT !.databaseID = result.databaseID,
                !.completedAt = result.completedAt,
                !.errorMessage = result.errorMessage,
                !.schemas = result.schemas,
                !.summary = result.summary]

\* ScanResultRepository.Update: the row after the UPDATE
Update(row, result) ==
    [row EXCEPT !.databaseID = result.databaseID,
                !.completedAt = result.completedAt,
                !.status = result.status,
                !.errorMessage = result.errorMessage,
                !.schemas = result.schemas,
                !.summary = result.summary]


(***************************************************************************)
(* State.                                                                  *)
(***************************************************************************)
VARIABLES
    scans,      \* the Result Store: scan id -> row (status Absent: no row)
    body,       \* scan id -> the detached goroutine running performScan
    cancels,    \* scan id, status -> the CancelScan calls in progress that read it
    last,       \* the operation step taken last, with what it returned
    patternRows,\* the Pattern Store: the rows of classification_patterns
    heap,       \* the allocated classifier.Classifier objects
    matcher,    \* ClassificationService.matcher: an object of heap, 0 for nil
    mu,         \* ClassificationService.mu
    reloads,    \* pattern create / update / delete calls
    readers     \* ClassificationService.ClassifyColumn calls

scanVars == <<scans, body, cancels>>
classifierVars == <<patternRows, heap, matcher, mu, reloads, readers, tieOrder>>
vars == <<scans, body, cancels, last, patternRows, heap, matcher, mu, reloads, readers,
          tieOrder>>

\* what the step taken last was: the operation, its databaseId or scan id,
\* whether it succeeded, and the error text ("nil": returned without error)
Returned(op, db, id, ok, ret) == [op |-> op, db |-> db, id |-> id, ok |-> ok, ret |-> ret]

(***************************************************************************)
(* ClassificationService.ClassifyColumn as the scan body calls it: the     *)
(* matcher is read under the read lock, then asked.                        *)
(***************************************************************************)
ColumnResult(colInfo, res) ==
    [columnName |-> colInfo.columnName, dataType |-> colInfo.dataType,
     informationType |-> res.informationType, confidenceScore |-> res.confidenceScore,
     matchedPatterns |-> res.matchedPatterns, isNullable |-> colInfo.isNullable,
     defaultValue |-> colInfo.defaultValue]

\* the results ClassifyColumn can return through the object m
ServiceClassifyColumn(m, columnName) ==
    IF m = 0 THEN {NoMatch} ELSE ClassifyColumn(heap[m].patterns, columnName)

\* a variant of the loop over tableInfo.Columns: every column is classified
\* by the Classifier the service was constructed with
ClassifyColumnsAsConstructed(columns) ==
    {crs \in [1..Len(columns) ->
                UNION {{ColumnResult(columns[i], r) : r \in ServiceClassifyColumn(1, columns[i].columnName)} :
                       i \in 1..Len(columns)}] :
        \A i \in 1..Len(columns) :
            \E r \in ServiceClassifyColumn(1, columns[i].columnName) :
                crs[i] = ColumnResult(columns[i], r)}

\* the column results of one table (the loop over tableInfo.Columns)
ClassifyColumns(columns) ==
    {crs \in [1..Len(columns) ->
                UNION {{ColumnResult(columns[i], r) : r \in ServiceClassifyColumn(matcher, columns[i].columnName)} :
                       i \in 1..Len(columns)}] :
        \A i \in 1..Len(columns) :
            \E r \in ServiceClassifyColumn(matcher, columns[i].columnName) :
                crs[i] = ColumnResult(columns[i], r)}

\* a variant of infoTypeCounts[infoType]++: the type is marked as seen
IncrementOnce(counts, infoType) ==
    [t \in DOMAIN counts \cup {infoType} |-> IF t = infoType THEN 1 ELSE counts[t]]

\* infoTypeCounts[infoType]++
Increment(counts, infoType) ==
    IF infoType \in DOMAIN counts
    THEN [counts EXCEPT ![infoType] = @ + 1]
    ELSE [t \in DOMAIN counts \cup {infoType} |-> IF t = infoType THEN 1 ELSE counts[t]]

\* the counters after the column results crs[from..]
RECURSIVE CountColumns(_, _, _)
CountColumns(b, crs, from) ==
    IF from > Len(crs) THEN b
    ELSE CountColumns(
            IF crs[from].informationType # InfoTypeNA
            THEN [b EXCEPT !.classifiedColumns = @ + 1,
                           !.infoTypeCounts = Increment(@, crs[from].informationType)]
            ELSE b,
            crs, from + 1)

(***************************************************************************)
(* StartScan.                                                              *)
(***************************************************************************)
\* the goroutine's locals before its first step
NewBody(scanResult) ==
    [pc |-> "setRunning", err |-> "", scanResult |-> scanResult, session |-> "none",
     schemas |-> <<>>, si |-> 1, tables |-> <<>>, ti |-> 1,
     schemaResults |-> <<>>, tableResults |-> <<>>,
     totalTables |-> 0, totalColumns |-> 0, classifiedColumns |-> 0,
     infoTypeCounts |-> EmptyCounts, calls |-> <<>>, warning |-> ""]

NoBody == [NewBody(ScanResult("nil")) EXCEPT !.pc = "none"]

\* a variant of StartScan: the goroutine is launched before scanRepo.Create
\* is known to have succeeded
StartScanLaunchFirst(databaseID) ==
    /\ \/ /\ last' = Returned("StartScan", databaseID, "nil", FALSE,
                               "failed to get database connection")
          /\ UNCHANGED scanVars
       \/ /\ databaseID \in Connections
          /\ \E scanID \in {i \in ScanIds : scans[i].status = Absent} :
                /\ body' = [body EXCEPT ![scanID] = NewBody(ScanResult(databaseID))]
                /\ \/ /\ scans' = [scans EXCEPT ![scanID] = Create(ScanResult(databaseID))]
                      /\ last' = Returned("StartScan", databaseID, scanID, TRUE, "nil")
                   \/ /\ scans' = scans
                      /\ last' = Returned("StartScan", databaseID, "nil", FALSE,
                                           "failed to create scan result")
          /\ UNCHANGED cancels
    /\ UNCHANGED classifierVars

StartScan(databaseID) ==
    /\ \/ \* dbConnRepo.GetByID fails: no row, or a store error
          /\ last' = Returned("StartScan", databaseID, "nil", FALSE,
                               "failed to get database connection")
          /\ UNCHANGED scanVars
       \/ \* scanRepo.Create fails
          /\ databaseID \in Connections
          /\ last' = Returned("StartScan", databaseID, "nil", FALSE,
                               "failed to create scan result")
          /\ UNCHANGED scanVars
       \/ \* the row is inserted and the goroutine launched
          /\ databaseID \in Connections
          /\ \E scanID \in {i \in ScanIds : scans[i].status = Absent} :
                /\ scans' = [scans EXCEPT ![scanID] = Create(ScanResult(databaseID))]
                /\ body' = [body EXCEPT ![scanID] = NewBody(ScanResult(databaseID))]
                /\ last' = Returned("StartScan", databaseID, scanID, TRUE, "nil")
          /\ UNCHANGED cancels
    /\ UNCHANGED classifierVars


(***************************************************************************)
(* performScan, one action per call it makes to a collaborator.  A step    *)
(* that returns an error runs the deferred inspector.Close() and leaves    *)
(* the goroutine at the UpdateStatus(Failed) of StartScan's closure.       *)
(***************************************************************************)
Step(id, b, row) ==
    /\ body' = [body EXCEPT ![id] = b]
    /\ scans' = [scans EXCEPT ![id] = row]
    /\ last' = Returned("performScan", "", "nil", TRUE, "")
    /\ UNCHANGED <<cancels, classifierVars>>

\* MySQLInspector.Close, deferred once the inspector exists
Close(session) == IF session = "open" THEN "closed" ELSE session

\* a variant of the error return: the inspector is not closed
ReturnErrorLeavesOpen(b, err) == [b EXCEPT !.pc = "setFailed", !.err = err]

\* return fmt.Errorf(...) from performScan
ReturnError(b, err) ==
    [b EXCEPT !.pc = "setFailed", !.err = err, !.session = Close(@)]

\* a variant of AfterTable: the finished schema is put in front of the
\* schemas gathered so far
AfterTablePrepends(b) ==
    IF b.ti <= Len(b.tables) THEN [b EXCEPT !.pc = "getTableInfo"]
    ELSE LET done == [b EXCEPT !.schemaResults =
                                    <<[schemaName |-> b.schemas[b.si],
                                       tables |-> b.tableResults]>> \o @,
                               !.si = @ + 1]
         IN  IF done.si <= Len(done.schemas)
             THEN [done EXCEPT !.pc = "getTables"]
             ELSE [done EXCEPT !.pc = "persist"]

\* the position after the table loop moved on: the next table, or the
\* schema is appended and the next schema (or the end of the loop) follows
AfterTable(b) ==
    IF b.ti <= Len(b.tables) THEN [b EXCEPT !.pc = "getTableInfo"]
    ELSE LET done == [b EXCEPT !.schemaResults =
                                    Append(@, [schemaName |-> b.schemas[b.si],
                                               tables |-> b.tableResults]),
                               !.si = @ + 1]
         IN  IF done.si <= Len(done.schemas)
             THEN [done EXCEPT !.pc = "getTables"]
             ELSE [done EXCEPT !.pc = "persist"]

\* scanRepo.UpdateStatus(Running)
SetRunning(id) ==
    /\ body[id].pc = "setRunning"
    /\ \/ Step(id, [body[id] EXCEPT !.pc = "decrypt"],
               UpdateStatus(scans[id], ScanStatusRunning, ""))
       \/ Step(id, [body[id] EXCEPT !.pc = "setFailed",
                                    !.err = "failed to update scan status to running"],
               scans[id])

\* encryptor.Decrypt
Decrypt(id) ==
    /\ body[id].pc = "decrypt"
    /\ \/ Step(id, [body[id] EXCEPT !.pc = "connect"], scans[id])
       \/ Step(id, [body[id] EXCEPT !.pc = "setFailed", !.err = "failed to decrypt password"],
               scans[id])

\* NewMySQLInspector, defer Close, inspector.Connect
Connect(id) ==
    /\ body[id].pc = "connect"
    /\ LET b == [body[id] EXCEPT !.calls = Append(@, "Connect")]
       IN  \/ Step(id, [b EXCEPT !.pc = "getSchemas", !.session = "open"], scans[id])
           \/ Step(id, ReturnError(b, "failed to connect to MySQL"), scans[id])

\* inspector.GetSchemas
GetSchemas(id) ==
    /\ body[id].pc = "getSchemas"
    /\ LET b == [body[id] EXCEPT !.calls = Append(@, "GetSchemas")]
       IN  \/ Step(id, [b EXCEPT !.schemas = SourceSchemas,
                                 !.pc = IF SourceSchemas = <<>> THEN "persist" ELSE "getTables"],
                   scans[id])
           \/ Step(id, ReturnError(b, "failed to get schemas"), scans[id])

\* inspector.GetTables(schemaName)
GetTables(id) ==
    /\ body[id].pc = "getTables"
    /\ LET schemaName == body[id].schemas[body[id].si]
           b == [body[id] EXCEPT !.calls = Append(@, "GetTables")]
           tables == SourceTables(schemaName)
       IN  \/ Step(id, AfterTable([b EXCEPT !.tables = tables, !.ti = 1,
                                            !.tableResults = <<>>,
                                            !.totalTables = @ + Len(tables)]),
                   scans[id])
           \/ Step(id, ReturnError(b, "failed to get tables for schema"), scans[id])

\* inspector.GetTableInfo(schemaName, tableName), then ClassifyColumn for
\* each of its columns
GetTableInfo(id) ==
    /\ body[id].pc = "getTableInfo"
    /\ mu.writer = 0
    /\ LET schemaName == body[id].schemas[body[id].si]
           tableName == body[id].tables[body[id].ti]
           b == [body[id] EXCEPT !.calls = Append(@, "GetTableInfo")]
           columns == SourceColumns(schemaName, tableName)
       IN  \/ Step(id, ReturnError(b, "failed to get table info"), scans[id])
           \/ \E columnResults \in ClassifyColumns(columns) :
                Step(id,
                     AfterTable(CountColumns(
                        [b EXCEPT !.totalColumns = @ + Len(columns),
                                  !.tableResults = Append(@, [tableName |-> tableName,
                                                              columns |-> columnResults]),
                                  !.ti = @ + 1],
                        columnResults, 1)),
                     scans[id])

\* calculateRiskLevel, the fields of scanResult, scanRepo.Update
Persist(id) ==
    /\ body[id].pc = "persist"
    /\ LET b == body[id]
           result == [b.scanResult EXCEPT
                        !.completedAt = TRUE,
                        !.status = ScanStatusCompleted,
                        !.schemas = b.schemaResults,
                        !.summary = ScanSummary(Len(b.schemas), b.totalTables, b.totalColumns,
                                                b.classifiedColumns, b.infoTypeCounts,
                                                calculateRiskLevel(b.infoTypeCounts, b.totalColumns))]
       IN  \/ Step(id, [b EXCEPT !.scanResult = result, !.pc = "updateLastScannedAt"],
                   Update(scans[id], result))
           \/ Step(id, ReturnError([b EXCEPT !.scanResult = result],
                                   "failed to update scan result"),
                   scans[id])

\* a variant of the last step: the error of UpdateLastScannedAt is returned
\* like that of any other step
UpdateLastScannedAtOrFail(id) ==
    /\ body[id].pc = "updateLastScannedAt"
    /\ \/ Step(id, [body[id] EXCEPT !.pc = "done", !.session = Close(@)], scans[id])
       \/ Step(id, ReturnError(body[id], "failed to update last scanned time"), scans[id])

\* a variant of the last step: when UpdateLastScannedAt fails the record is
\* marked failed on the spot
UpdateLastScannedAtMarksFailed(id) ==
    /\ body[id].pc = "updateLastScannedAt"
    /\ \/ Step(id, [body[id] EXCEPT !.pc = "done", !.session = Close(@)], scans[id])
       \/ Step(id, [body[id] EXCEPT !.pc = "done", !.session = Close(@),
                                    !.warning = "failed to update last scanned time"],
               UpdateStatus(scans[id], ScanStatusFailed, "failed to update last scanned time"))

\* dbConnRepo.UpdateLastScannedAt, whose error is printed; return nil
UpdateLastScannedAt(id) ==
    /\ body[id].pc = "updateLastScannedAt"
    /\ \/ Step(id, [body[id] EXCEPT !.pc = "done", !.session = Close(@)], scans[id])
       \/ Step(id, [body[id] EXCEPT !.pc = "done", !.session = Close(@),
                                    !.warning = "failed to update last scanned time"],
               scans[id])

\* the closure of StartScan: UpdateStatus(Failed, err.Error()), its own
\* error dropped
SetFailed(id) ==
    /\ body[id].pc = "setFailed"
    /\ \/ Step(id, [body[id] EXCEPT !.pc = "done"],
               UpdateStatus(scans[id], ScanStatusFailed, body[id].err))
       \/ Step(id, [body[id] EXCEPT !.pc = "done"], scans[id])

performScan(id) ==
    \/ SetRunning(id)
    \/ Decrypt(id)
    \/ Connect(id)
    \/ GetSchemas(id)
    \/ GetTables(id)
    \/ GetTableInfo(id)
    \/ Persist(id)
    \/ UpdateLastScannedAt(id)
    \/ SetFailed(id)

(***************************************************************************)
(* CancelScan: GetByID and the status check, then UpdateStatus.            *)
(***************************************************************************)
CancelMessage == "Cancelled by user"

\* a variant of the check in CancelScan: every status is cancelable
CancelableAlways ==
    {ScanStatusPending, ScanStatusRunning, ScanStatusCompleted, ScanStatusFailed,
     ScanStatusCancelled}

Cancelable == {ScanStatusPending, ScanStatusRunning}

\* no CancelScan call in progress
NoCancels == [id \in ScanIds |-> [status \in Cancelable |-> 0]]

\* the number of CancelScan calls between their GetByID and their UpdateStatus
RECURSIVE InProgress(_, _)
InProgress(c, ids) ==
    IF ids = {} THEN 0
    ELSE LET id == CHOOSE x \in ids : TRUE
         IN  c[id][ScanStatusPending] + c[id][ScanStatusRunning] + InProgress(c, ids \ {id})

\* scanRepo.GetByID and the check of the status read
CancelScanRead(scanID) ==
    /\ \/ \* scanRepo.GetByID fails: no row, or a store error
          /\ cancels' = cancels
          /\ last' = Returned("CancelScan", "", scanID, FALSE, "failed to get scan result")
       \/ /\ scans[scanID].status # Absent
          /\ scans[scanID].status \notin Cancelable
          /\ cancels' = cancels
          /\ last' = Returned("CancelScan", "", scanID, FALSE, "scan cannot be cancelled")
       \/ /\ scans[scanID].status \in Cancelable
          /\ cancels' = [cancels EXCEPT ![scanID][scans[scanID].status] = @ + 1]
          /\ last' = Returned("GetByID", "", scanID, TRUE, "")
    /\ UNCHANGED <<scans, body, classifierVars>>

\* a variant of CancelScan's write: cancelling ends the goroutine of the scan
CancelScanUpdateStops(scanID, seen) ==
    /\ cancels[scanID][seen] > 0
    /\ cancels' = [cancels EXCEPT ![scanID][seen] = @ - 1]
    /\ \/ /\ scans' = [scans EXCEPT ![scanID] =
                          UpdateStatus(@, ScanStatusCancelled, CancelMessage)]
          /\ body' = [body EXCEPT ![scanID].pc = "done", ![scanID].session = Close(@)]
          /\ last' = Returned("CancelScan", "", scanID, TRUE, "nil")
       \/ /\ scans' = scans
          /\ body' = body
          /\ last' = Returned("CancelScan", "", scanID, FALSE, "failed to cancel scan")
    /\ UNCHANGED classifierVars

\* scanRepo.UpdateStatus(Cancelled) of a call that read the status seen
CancelScanUpdate(scanID, seen) ==
    /\ cancels[scanID][seen] > 0
    /\ cancels' = [cancels EXCEPT ![scanID][seen] = @ - 1]
    /\ \/ /\ scans' = [scans EXCEPT ![scanID] =
                          UpdateStatus(@, ScanStatusCancelled, CancelMessage)]
          /\ last' = Returned("CancelScan", "", scanID, TRUE, "nil")
       \/ /\ scans' = scans
          /\ last' = Returned("CancelScan", "", scanID, FALSE, "failed to cancel scan")
    /\ UNCHANGED <<body, classifierVars>>

CancelScan(scanID) ==
    \/ CancelScanRead(scanID)
    \/ \E seen \in Cancelable : CancelScanUpdate(scanID, seen)

(***************************************************************************)
(* ClassificationService: the pattern create / update / delete calls and   *)
(* the reload each ends with, and ClassifyColumn.                          *)
(***************************************************************************)
NoLock == [writer |-> 0, readers |-> 0]

\* a free address
NoObject == [patterns |-> <<>>, source |-> <<>>]

NoRequest == CreatePatternRequest("", <<>>, 0)
IdleReload == [pc |-> "idle", op |-> "", id |-> "nil", req |-> NoRequest,
               patterns |-> <<>>, c |-> 0]
IdleReader == [pc |-> "idle", columnName |-> <<>>, m |-> 0]

\* the objects some pointer refers to
Referenced(mt, rl, rd) ==
    ({mt} \cup {rl[r].c : r \in DOMAIN rl} \cup {rd[r].m : r \in DOMAIN rd}) \ {0}

\* the heap once the garbage collector freed what nothing refers to
Collect(h, mt, rl, rd) ==
    [o \in ObjIds |-> IF o \in Referenced(mt, rl, rd) THEN h[o] ELSE NoObject]

\* a call returns: its locals are gone
Return(r, op, ok, ret) ==
    /\ reloads' = [reloads EXCEPT ![r] = IdleReload]
    /\ last' = Returned(op, "", "nil", ok, ret)
    /\ heap' = Collect(heap, matcher, reloads', readers)

\* ClassifyColumn returns res, computed by the object m for columnName
Classified(columnName, m, res) ==
    [op |-> "ClassifyColumn", db |-> "", id |-> "nil", ok |-> TRUE, ret |-> "nil",
     columnName |-> columnName, snapshot |-> IF m = 0 THEN <<>> ELSE heap[m].patterns,
     result |-> res]

\* a call moves on to its next step
Goto(r, call) ==
    /\ reloads' = [reloads EXCEPT ![r] = call]
    /\ last' = Returned(call.op, "", "nil", TRUE, "")

\* time.Now() of a new row: later than the created_at of every row
Now(rows) == Cardinality(rows) + 1

\* created_at is only ever compared: the rows keep their order in time, each
\* timestamp written as its rank among those of the rows
Timestamps(rows) ==
    {[row EXCEPT !.createdAt = Cardinality({x \in rows : x.createdAt <= row.createdAt})] :
        row \in rows}

\* CreatePattern up to repo.Create
CreatePattern(r, req) ==
    \/ \* repo.ExistsByPattern
       /\ reloads[r].pc = "idle"
       /\ \/ /\ Return(r, "CreatePattern", FALSE, "failed to check pattern existence")
             /\ UNCHANGED patternRows
          \/ /\ \E row \in patternRows : row.pattern = req.pattern
             /\ Return(r, "CreatePattern", FALSE, "pattern already exists")
             /\ UNCHANGED patternRows
          \/ /\ \A row \in patternRows : row.pattern # req.pattern
             /\ Goto(r, [IdleReload EXCEPT !.pc = "create", !.op = "CreatePattern", !.req = req])
             /\ UNCHANGED <<patternRows, heap>>
    \/ \* uuid.New, repo.Create
       /\ reloads[r].pc = "create"
       /\ reloads[r].req = req
       /\ \/ /\ Return(r, "CreatePattern", FALSE, "failed to create pattern")
             /\ UNCHANGED patternRows
          \/ \E id \in PatternIds \ {row.id : row \in patternRows} :
                /\ patternRows' = patternRows \cup
                      {ClassificationPattern(id, req.informationType, req.pattern,
                                             req.priority, Now(patternRows))}
                /\ Goto(r, [reloads[r] EXCEPT !.pc = "reloadMatcher", !.id = id])
                /\ UNCHANGED heap

\* UpdatePattern up to repo.Update
UpdatePattern(r, id, req) ==
    \/ \* repo.GetByID
       /\ reloads[r].pc = "idle"
       /\ \/ /\ Return(r, "UpdatePattern", FALSE, "classification pattern not found")
             /\ UNCHANGED patternRows
          \/ /\ \E row \in patternRows : row.id = id
             /\ Goto(r, [IdleReload EXCEPT !.pc = "update", !.op = "UpdatePattern",
                                           !.id = id, !.req = req])
             /\ UNCHANGED <<patternRows, heap>>
    \/ \* the fields of the request, repo.Update
       /\ reloads[r].pc = "update"
       /\ reloads[r].id = id
       /\ reloads[r].req = req
       /\ \/ /\ Return(r, "UpdatePattern", FALSE, "failed to update pattern")
             /\ UNCHANGED patternRows
          \/ \E row \in patternRows :
                /\ row.id = id
                /\ patternRows' = (patternRows \ {row}) \cup
                      {ClassificationPattern(id, req.informationType, req.pattern,
                                             req.priority, row.createdAt)}
                /\ Goto(r, [reloads[r] EXCEPT !.pc = "reloadMatcher"])
                /\ UNCHANGED heap

\* DeletePattern up to repo.Delete
DeletePattern(r, id) ==
    /\ reloads[r].pc = "idle"
    /\ \/ /\ Return(r, "DeletePattern", FALSE, "classification pattern not found")
          /\ UNCHANGED patternRows
       \/ \E row \in patternRows :
             /\ row.id = id
             /\ patternRows' = Timestamps(patternRows \ {row})
             /\ Goto(r, [IdleReload EXCEPT !.pc = "reloadMatcher", !.op = "DeletePattern",
                                           !.id = id])
             /\ UNCHANGED heap

\* a variant of the reload: the new object is stored in s.matcher as soon as
\* it is allocated, before SetPatterns fills it
reloadMatcherPublishes(r) ==
    /\ reloads[r].pc = "reloadMatcher"
    /\ \/ /\ Return(r, reloads[r].op, FALSE, "failed to query active patterns")
          /\ matcher' = matcher
       \/ \E patterns \in GetActive(patternRows) :
          \E c \in ObjIds \ Referenced(matcher, reloads, readers) :
             /\ \A o \in ObjIds \ Referenced(matcher, reloads, readers) : c <= o
             /\ Goto(r, [reloads[r] EXCEPT !.pc = "SetPatterns", !.patterns = patterns, !.c = c])
             /\ heap' = [heap EXCEPT ![c] = [patterns |-> <<>>, source |-> patterns]]
             /\ matcher' = c
    /\ UNCHANGED <<patternRows, mu>>

\* a variant of the reload: s.mu.Lock() comes first, before repo.GetActive
\* and the compilation
reloadMatcherLocksFirst(r) ==
    /\ reloads[r].pc = "reloadMatcher"
    /\ mu = NoLock
    /\ mu' = [mu EXCEPT !.writer = r]
    /\ \E patterns \in GetActive(patternRows) :
       \E c \in ObjIds \ Referenced(matcher, reloads, readers) :
          /\ \A o \in ObjIds \ Referenced(matcher, reloads, readers) : c <= o
          /\ Goto(r, [reloads[r] EXCEPT !.pc = "SetPatterns", !.patterns = patterns, !.c = c])
          /\ heap' = [heap EXCEPT ![c] = [patterns |-> <<>>, source |-> patterns]]
    /\ UNCHANGED <<patternRows, matcher>>

\* reloadMatcher: repo.GetActive, and the &Classifier{} of NewClassifier
reloadMatcher(r) ==
    /\ reloads[r].pc = "reloadMatcher"
    /\ \/ /\ Return(r, reloads[r].op, FALSE, "failed to query active patterns")
       \/ \E patterns \in GetActive(patternRows) :
          \E c \in ObjIds \ Referenced(matcher, reloads, readers) :
             /\ \A o \in ObjIds \ Referenced(matcher, reloads, readers) : c <= o
             /\ Goto(r, [reloads[r] EXCEPT !.pc = "SetPatterns", !.patterns = patterns, !.c = c])
             /\ heap' = [heap EXCEPT ![c] = [patterns |-> <<>>, source |-> patterns]]
    /\ UNCHANGED <<patternRows, matcher, mu>>

\* a variant of NewClassifier: the patterns compiled before the one that
\* fails are kept, and the object is stored in s.matcher all the same
NewClassifierKeepsCompiled(r) ==
    /\ reloads[r].pc = "SetPatterns"
    /\ \/ /\ SetPatternsFails(reloads[r].patterns)
          /\ matcher' = reloads[r].c
          /\ reloads' = [reloads EXCEPT ![r] = IdleReload]
          /\ last' = Returned(reloads[r].op, "", "nil", FALSE, "failed to prepare classifier")
          /\ heap' = Collect(heap, matcher', reloads', readers)
       \/ /\ ~SetPatternsFails(reloads[r].patterns)
          /\ \E compiled \in SetPatterns(reloads[r].patterns) :
                heap' = [heap EXCEPT ![reloads[r].c].patterns = compiled]
          /\ Goto(r, [reloads[r] EXCEPT !.pc = "Lock"])
          /\ matcher' = matcher
    /\ UNCHANGED <<patternRows, mu>>

\* NewClassifier: c.SetPatterns(patterns), whose error refreshClassifier
\* returns
NewClassifier(r) ==
    /\ reloads[r].pc = "SetPatterns"
    /\ \/ /\ SetPatternsFails(reloads[r].patterns)
          /\ Return(r, reloads[r].op, FALSE, "failed to prepare classifier")
       \/ /\ ~SetPatternsFails(reloads[r].patterns)
          /\ \E compiled \in SetPatterns(reloads[r].patterns) :
                heap' = [heap EXCEPT ![reloads[r].c].patterns = compiled]
          /\ Goto(r, [reloads[r] EXCEPT !.pc = "Lock"])
    /\ UNCHANGED <<patternRows, matcher, mu>>

\* refreshClassifier: s.mu.Lock(); s.matcher = matcher; s.mu.Unlock()
refreshClassifier(r) ==
    \/ /\ reloads[r].pc = "Lock"
       /\ mu = NoLock
       /\ mu' = [mu EXCEPT !.writer = r]
       /\ Goto(r, [reloads[r] EXCEPT !.pc = "swap"])
       /\ UNCHANGED <<patternRows, matcher, heap>>
    \/ /\ reloads[r].pc = "swap"
       /\ matcher' = reloads[r].c
       /\ Goto(r, [reloads[r] EXCEPT !.pc = "Unlock", !.c = 0])
       /\ heap' = Collect(heap, matcher', reloads', readers)
       /\ UNCHANGED <<patternRows, mu>>
    \/ /\ reloads[r].pc = "Unlock"
       /\ mu' = [mu EXCEPT !.writer = 0]
       /\ Return(r, reloads[r].op, TRUE, "nil")
       /\ UNCHANGED <<patternRows, matcher>>

\* a pattern create, update or delete call, whichever step it is at
MutatePattern(r) ==
    /\ \/ /\ \E req \in Requests : CreatePattern(r, req)
          /\ UNCHANGED <<matcher, mu>>
       \/ /\ \E id \in MutatedIds, req \in Requests : UpdatePattern(r, id, req)
          /\ UNCHANGED <<matcher, mu>>
       \/ /\ \E id \in MutatedIds : DeletePattern(r, id)
          /\ UNCHANGED <<matcher, mu>>
       \/ reloadMatcher(r)
       \/ NewClassifier(r)
       \/ refreshClassifier(r)
    /\ UNCHANGED <<scanVars, readers, tieOrder>>

\* ClassificationService.ClassifyColumn
ServiceClassify(r, columnName) ==
    /\ \/ \* s.mu.RLock()
          /\ readers[r].pc = "idle"
          /\ mu.writer = 0
          /\ mu' = [mu EXCEPT !.readers = @ + 1]
          /\ readers' = [readers EXCEPT ![r] = [IdleReader EXCEPT !.pc = "RLock",
                                                                  !.columnName = columnName]]
          /\ last' = Returned("ClassifyColumn", "", "nil", TRUE, "")
          /\ UNCHANGED heap
       \/ \* matcher := s.matcher; s.mu.RUnlock()
          /\ readers[r].pc = "RLock"
          /\ readers[r].columnName = columnName
          /\ mu' = [mu EXCEPT !.readers = @ - 1]
          /\ readers' = [readers EXCEPT ![r].pc = "ClassifyColumn", ![r].m = matcher]
          /\ last' = Returned("ClassifyColumn", "", "nil", TRUE, "")
          /\ UNCHANGED heap
       \/ \* matcher.ClassifyColumn(columnName), or N/A for a nil matcher
          /\ readers[r].pc = "ClassifyColumn"
          /\ readers[r].columnName = columnName
          /\ \E res \in ServiceClassifyColumn(readers[r].m, columnName) :
                last' = Classified(columnName, readers[r].m, res)
          /\ readers' = [readers EXCEPT ![r] = IdleReader]
          /\ mu' = mu
          /\ heap' = Collect(heap, matcher, reloads, readers')
    /\ UNCHANGED <<scanVars, patternRows, matcher, reloads, tieOrder>>

(***************************************************************************)
(* The specification of the Scan Orchestrator: scans and cancels, the      *)
(* Pattern Snapshot fixed as the service's construction left it.           *)
(***************************************************************************)
\* the services once constructed over a Pattern Store holding rows, none
\* of which fails to compile: NewClassificationService has loaded them into
\* the first Classifier
Construct(rows) ==
    /\ scans = [i \in ScanIds |-> NoRow]
    /\ body = [i \in ScanIds |-> NoBody]
    /\ cancels = NoCancels
    /\ last = Returned("none", "", "nil", TRUE, "")
    /\ patternRows = rows
    /\ tieOrder \in TieOrders
    /\ \E patterns \in GetActive(rows) : \E compiled \in SetPatterns(patterns) :
          heap = [o \in ObjIds |-> IF o = 1 THEN [patterns |-> compiled, source |-> patterns]
                                    ELSE NoObject]
    /\ matcher = 1
    /\ mu = NoLock
    /\ reloads = [r \in ReloadIds |-> IdleReload]
    /\ readers = [r \in ReaderIds |-> IdleReader]

Init == Construct(SeedPatterns)

Next ==
    \/ \E databaseID \in DatabaseIds : StartScan(databaseID)
    \/ \E id \in ScanIds : performScan(id)
    \/ \E scanID \in ScanIds :
          /\ CancelScan(scanID)
          /\ InProgress(cancels', ScanIds) <= MaxCancels

Spec == Init /\ [][Next]_vars

\* one scan and the CancelScan calls on it, the goroutine of the scan
\* scheduled until it returns
NextOneScan == Next /\ \A id \in ScanIds \ {"scan-a"} : scans'[id].status = Absent

SpecOneScan ==
    Init /\ [][NextOneScan]_vars /\ \A id \in ScanIds : WF_vars(performScan(id))

\* scans that no caller cancels
NextNoCancel ==
    \/ \E databaseID \in DatabaseIds : StartScan(databaseID)
    \/ \E id \in ScanIds : performScan(id)

SpecNoCancel == Init /\ [][NextNoCancel]_vars

(***************************************************************************)
(* The specification of the Classification Engine: pattern mutations with  *)
(* their reloads, and ClassifyColumn calls, with no scan running.          *)
(***************************************************************************)
NextClassifier ==
    \/ \E r \in ReloadIds :
          /\ reloads[r].pc = "idle" => \A q \in ReloadIds : q < r => reloads[q].pc # "idle"
          /\ MutatePattern(r)
    \/ \E r \in ReaderIds, columnName \in ColumnNames : ServiceClassify(r, columnName)

SpecClassifier == Init /\ [][NextClassifier]_vars

(***************************************************************************)
(* The specification of ClassifyColumn as a function: the service is       *)
(* constructed over one of several Pattern Stores, and callers classify    *)
(* column names against the snapshot it loaded.                            *)
(***************************************************************************)
\* two rules of one priority, both matching user_ssn with one score
TiedPatterns ==
    {ClassificationPattern("p1", "SSN", S_ssn, 90, 1),
     ClassificationPattern("p2", "USERNAME", S_user, 90, 2),
     ClassificationPattern("p3", "ACCOUNT_NUMBER", S_id, 50, 3)}
\* a rule whose regex matches the empty string
EmptyMatchPatterns ==
    {ClassificationPattern("p1", "USERNAME", S_empty, 40, 1),
     ClassificationPattern("p3", "ACCOUNT_NUMBER", S_id, 50, 2)}
\* a rule that names N/A as its information type
NAPatterns ==
    {ClassificationPattern("p1", InfoTypeNA, S_id, 60, 1),
     ClassificationPattern("p2", "EMAIL_ADDRESS", S_email, 80, 2)}
\* a rule matching a common word, and one of the highest priority
NamePatterns ==
    {ClassificationPattern("p1", "USERNAME", S_name, 60, 1),
     ClassificationPattern("p2", "ACCOUNT_NUMBER", <<"^", "i", "d", "$">>, 100, 2)}

PatternStores ==
    {SeedPatterns, TiedPatterns, EmptyMatchPatterns, NAPatterns, NamePatterns, {}}

\* the names callers pass to ClassifyColumn
ClassifyNames == {<<>>, S_spaces, S_user_ssn, S_id, S_ID_padded, S_nino_name, S_notes}

InitClassify == \E rows \in PatternStores : Construct(rows)

NextClassify ==
    \E r \in ReaderIds, columnName \in ClassifyNames : ServiceClassify(r, columnName)

SpecClassify == InitClassify /\ [][NextClassify]_vars

(***************************************************************************)
(* The specification of calculateRiskLevel as a function: a scan body has  *)
(* come to the end of its loops with some counters, and persists them.     *)
(***************************************************************************)
\* the most columns of the database, and the most of them of one type
MaxColumns == 20
MaxCount == 3

\* one information type of the high-risk set, one of the medium-risk set,
\* one of neither
CountedTypes == {"SSN", "EMAIL_ADDRESS", "USERNAME"}

\* the maps infoTypeCounts can be: a key for each type counted at least once
InfoTypeCounts ==
    {[t \in {u \in CountedTypes : n[u] > 0} |-> n[t]] : n \in [CountedTypes -> 0..MaxCount]}

InitRisk ==
    \E counts \in InfoTypeCounts, totalColumns \in 0..MaxColumns :
        /\ SumOver(counts, DOMAIN counts) <= totalColumns
        /\ scans = [i \in ScanIds |->
                      IF i = "scan-a"
                      THEN [ScanResult("db1") EXCEPT !.status = ScanStatusRunning]
                      ELSE NoRow]
        /\ body = [i \in ScanIds |->
                     IF i = "scan-a"
                     THEN [NewBody(ScanResult("db1")) EXCEPT
                              !.pc = "persist", !.session = "open",
                              !.totalColumns = totalColumns,
                              !.classifiedColumns = SumOver(counts, DOMAIN counts),
                              !.infoTypeCounts = counts]
                     ELSE NoBody]
        /\ cancels = NoCancels
        /\ last = Returned("none", "", "nil", TRUE, "")
        /\ patternRows = SeedPatterns
        /\ tieOrder \in TieOrders
        /\ \E patterns \in GetActive(SeedPatterns) : \E compiled \in SetPatterns(patterns) :
              heap = [o \in ObjIds |-> IF o = 1 THEN [patterns |-> compiled, source |-> patterns]
                                        ELSE NoObject]
        /\ matcher = 1
        /\ mu = NoLock
        /\ reloads = [r \in ReloadIds |-> IdleReload]
        /\ readers = [r \in ReaderIds |-> IdleReader]

NextRisk == \E id \in ScanIds : Persist(id) \/ UpdateLastScannedAt(id) \/ SetFailed(id)

SpecRisk == InitRisk /\ [][NextRisk]_vars

(***************************************************************************)
(* The specification of concurrent pattern mutations: several create,      *)
(* update and delete calls at a time, every step of which succeeds, with   *)
(* no scan and no ClassifyColumn call running.                             *)
(***************************************************************************)
\* the pattern calls that can be in progress at a time
MaxConcurrent == 2
Callers == 1..MaxConcurrent

InitConcurrent ==
    /\ scans = [i \in ScanIds |-> NoRow]
    /\ body = [i \in ScanIds |-> NoBody]
    /\ cancels = NoCancels
    /\ last = Returned("none", "", "nil", TRUE, "")
    /\ patternRows = SeedPatterns
    /\ tieOrder \in TieOrders
    /\ \E patterns \in GetActive(SeedPatterns) : \E compiled \in SetPatterns(patterns) :
          heap = [o \in ObjIds |-> IF o = 1 THEN [patterns |-> compiled, source |-> patterns]
                                    ELSE NoObject]
    /\ matcher = 1
    /\ mu = NoLock
    /\ reloads = [r \in Callers |-> IdleReload]
    /\ readers = [r \in ReaderIds |-> IdleReader]

\* a step of a call that does not return an error
NextConcurrent == (\E r \in Callers : MutatePattern(r)) /\ last'.ok

SpecConcurrent == InitConcurrent /\ [][NextConcurrent]_vars

(***************************************************************************)
(* The specification of a scan during pattern mutations: one scan body     *)
(* and the pattern create, update and delete calls with their reloads.     *)
(* The store holds, next to the seeded rules, a rule that matches columns  *)
(* of several tables.                                                      *)
(***************************************************************************)
WideStore == SeedPatterns \cup {ClassificationPattern("p4", "USERNAME", S_s, 95, 4)}

InitScanReload == Construct(WideStore)

NextScanReload ==
    /\ \/ \E databaseID \in DatabaseIds : StartScan(databaseID)
       \/ \E id \in ScanIds : performScan(id)
       \/ \E r \in ReloadIds : MutatePattern(r)
    /\ \A id \in ScanIds \ {"scan-a"} : scans'[id].status = Absent

SpecScanReload == InitScanReload /\ [][NextScanReload]_vars

(***************************************************************************)
(* The claims about the Scan Orchestrator, checked under Spec.             *)
(***************************************************************************)
\* scan id's body takes a step
BodyStep(id) == body[id].pc # "none" /\ body'[id] # body[id]

\* a CancelScan call on id that had read Pending or Running reaches its
\* UpdateStatus
CancelWrite(id) ==
    \E seen \in {ScanStatusPending, ScanStatusRunning} :
        cancels'[id][seen] = cancels[id][seen] - 1

\* C1 as stated: once the stored status of a scan is Completed, Failed or
\* Cancelled, no step changes it to a different value
C1_TerminalNeverChanges ==
    [][\A id \in ScanIds :
          scans[id].status \in Terminal => scans'[id].status = scans[id].status]_vars

\* C1, amended: a stored Completed or Failed is never changed by the scan
\* body, and changes only to Cancelled, by the UpdateStatus of a CancelScan
\* call that read Pending or Running before; a stored Cancelled changes only
\* by a write of the scan body, to Running, Completed or Failed
C1_TerminalChangesOnlyByLateWriter ==
    [][\A id \in ScanIds :
          scans[id].status \in Terminal /\ scans'[id].status # scans[id].status =>
             IF scans[id].status = ScanStatusCancelled
             THEN /\ BodyStep(id)
                  /\ scans'[id].status \in
                        {ScanStatusRunning, ScanStatusCompleted, ScanStatusFailed}
             ELSE /\ ~BodyStep(id)
                  /\ CancelWrite(id)
                  /\ scans'[id].status = ScanStatusCancelled]_vars

\* C1's case: the body finished with its results persisted as Completed, and
\* a CancelScan call that had read Running wrote Cancelled over it
C1_Witness ==
    \E id \in ScanIds :
        /\ body[id].pc = "done"
        /\ body[id].err = ""
        /\ scans[id].schemas # <<>>
        /\ scans[id].status = ScanStatusCancelled

\* C2 as stated: every change of a stored status is one of the five
\* transitions of the lifecycle
C2_OnlyLifecycleTransitions ==
    [][\A id \in ScanIds :
          scans[id].status # Absent /\ scans'[id].status # scans[id].status =>
             <<scans[id].status, scans'[id].status>> \in
                {<<ScanStatusPending, ScanStatusRunning>>,
                 <<ScanStatusRunning, ScanStatusCompleted>>,
                 <<ScanStatusRunning, ScanStatusFailed>>,
                 <<ScanStatusPending, ScanStatusCancelled>>,
                 <<ScanStatusRunning, ScanStatusCancelled>>}]_vars

\* C2, amended: a record is created Pending; every later change of its
\* status is one of the five transitions of the lifecycle, or Pending->Failed
\* (the write of Running failed), or Completed->Cancelled or
\* Failed->Cancelled (a CancelScan that read Pending or Running writes
\* late), or Cancelled->Running, Cancelled->Completed or Cancelled->Failed
\* (the body writes after a cancel).  So no record returns to Pending, none
\* is Completed without having been Running, and Completed and Failed never
\* change into Running or into each other
C2_Transitions ==
    [][\A id \in ScanIds :
          scans'[id].status # scans[id].status =>
             <<scans[id].status, scans'[id].status>> \in
                {<<Absent, ScanStatusPending>>,
                 <<ScanStatusPending, ScanStatusRunning>>,
                 <<ScanStatusRunning, ScanStatusCompleted>>,
                 <<ScanStatusRunning, ScanStatusFailed>>,
                 <<ScanStatusPending, ScanStatusCancelled>>,
                 <<ScanStatusRunning, ScanStatusCancelled>>,
                 <<ScanStatusPending, ScanStatusFailed>>,
                 <<ScanStatusCompleted, ScanStatusCancelled>>,
                 <<ScanStatusFailed, ScanStatusCancelled>>,
                 <<ScanStatusCancelled, ScanStatusRunning>>,
                 <<ScanStatusCancelled, ScanStatusCompleted>>,
                 <<ScanStatusCancelled, ScanStatusFailed>>}]_vars

\* C2's case: a scan is Failed that never was Running (its body's write of
\* Running failed, the write of Failed succeeded), with no cancel involved
C2_Witness ==
    \E id \in ScanIds :
        /\ body[id].pc = "done"
        /\ body[id].err = "failed to update scan status to running"
        /\ scans[id].status = ScanStatusFailed

\* a CancelScan call on id returns from its status check (no write follows)
CancelReturnsEarly(id) ==
    last'.op = "CancelScan" /\ last'.id = id /\ cancels' = cancels

\* a CancelScan call on id that read the status seen reaches its
\* UpdateStatus, no write to the record having come in between
CancelWriteAsRead(id, seen) ==
    /\ cancels'[id][seen] = cancels[id][seen] - 1
    /\ scans[id].status = seen

\* the record of id after a successful cancel
Cancelled(id) ==
    /\ last' = Returned("CancelScan", "", id, TRUE, "nil")
    /\ scans'[id] = [scans[id] EXCEPT !.status = ScanStatusCancelled,
                                      !.completedAt = TRUE,
                                      !.errorMessage = CancelMessage]

\* the stored status of id is terminal and CancelScan refuses
Refused(id) ==
    scans[id].status \in Terminal /\ CancelReturnsEarly(id) =>
        ~last'.ok /\ scans' = scans

C4_CancelDoesNotStopBody ==
    /\ [][\A id \in ScanIds :
             /\ CancelWrite(id) =>
                   /\ body' = body
                   /\ scans'[id] = [scans[id] EXCEPT
                                       !.status = scans'[id].status,
                                       !.completedAt = scans'[id].completedAt,
                                       !.errorMessage = scans'[id].errorMessage]
             /\ BodyStep(id) /\ body'[id].pc = "updateLastScannedAt" =>
                   /\ scans'[id].status = ScanStatusCompleted
                   /\ scans'[id].schemas = body[id].schemaResults
             /\ BodyStep(id) /\ body[id].pc = "setFailed" =>
                   \/ scans'[id] = UpdateStatus(scans[id], ScanStatusFailed, body[id].err)
                   \/ scans'[id] = scans[id]
             /\ BodyStep(id) /\ body'[id].pc = "done" =>
                   body[id].pc \in {"updateLastScannedAt", "setFailed"}]_vars
    /\ \A id \in ScanIds : (body[id].pc # "none") ~> (body[id].pc = "done")

\* C4's case: the scan is stored as Cancelled and its body, all schemas
\* inspected, is about to write Completed
C4_Witness ==
    \E id \in ScanIds :
        /\ scans[id].status = ScanStatusCancelled
        /\ scans[id].errorMessage = CancelMessage
        /\ body[id].pc = "persist"
        /\ body[id].schemaResults # <<>>

\* C5 as stated: every scan whose StartScan returned successfully eventually
\* has a terminal stored status
C5_EventuallyTerminal ==
    \A id \in ScanIds : (body[id].pc # "none") ~> (scans[id].status \in Terminal)

\* C6 as stated: with no CancelScan, a body that hit an error ends with the
\* record Failed, the error text as its message, and no schema tree
C6_ErrorEndsFailed ==
    \A id \in ScanIds :
        body[id].pc = "done" /\ body[id].err # "" =>
            /\ scans[id].status = ScanStatusFailed
            /\ scans[id].errorMessage = body[id].err
            /\ scans[id].schemas = <<>>

\* C7: a StartScan for a databaseId without a connection row returns an
\* error; a StartScan that returns an error, the failed Create included,
\* leaves the Result Store as it was and launches no goroutine
C7_FailedStartScan ==
    [][\A databaseID \in DatabaseIds :
          last'.op = "StartScan" /\ last'.db = databaseID =>
             /\ databaseID \notin Connections => ~last'.ok
             /\ ~last'.ok =>
                   /\ last'.ret \in {"failed to get database connection",
                                     "failed to create scan result"}
                   /\ last'.id = "nil"
                   /\ scans' = scans
                   /\ body' = body]_vars

\* C7's case: with a scan already stored, a StartScan for a databaseId
\* without a connection row has just returned its error
C7_Witness ==
    /\ last = Returned("StartScan", "db9", "nil", FALSE, "failed to get database connection")
    /\ \E id \in ScanIds : scans[id].status # Absent

\* C8: a StartScan that returns an id has, in the step it returns, inserted
\* one row under that id, which no row had before, with status Pending and
\* no completedAt, and launched one goroutine, for that id, which has taken
\* no step yet; every other row and goroutine is as before
C8_SuccessfulStartScan ==
    [][last'.op = "StartScan" /\ last'.ok =>
          \E id \in ScanIds :
             /\ last'.id = id
             /\ scans[id].status = Absent
             /\ body[id].pc = "none"
             /\ scans'[id] = ScanResult(last'.db)
             /\ scans'[id].status = ScanStatusPending
             /\ ~scans'[id].completedAt
             /\ body'[id] = NewBody(ScanResult(last'.db))
             /\ \A other \in ScanIds \ {id} :
                   scans'[other] = scans[other] /\ body'[other] = body[other]]_vars

\* C8's case: with another scan stored, StartScan has just returned the id of
\* a new Pending row whose goroutine has not taken a step
C8_Witness ==
    /\ last.op = "StartScan"
    /\ last.ok
    /\ scans[last.id].status = ScanStatusPending
    /\ body[last.id].pc = "setRunning"
    /\ \E other \in ScanIds \ {last.id} : scans[other].status # Absent

(***************************************************************************)
(* The claims about the Pattern Snapshot, checked under SpecClassifier.    *)
(***************************************************************************)
\* the Pattern Snapshot in effect: the patterns of the object s.matcher
\* refers to
Snapshot == IF matcher = 0 THEN <<>> ELSE heap[matcher].patterns

\* the call r takes a step
ReloadStep(r) == reloads'[r] # reloads[r]

\* the object o holds the whole of one result of GetActive, compiled and
\* sorted by priority
Complete(o) == heap[o].patterns \in SetPatterns(heap[o].source)

\* C9: a create, update or delete call whose reload finds a pattern that
\* does not compile returns the error of the reload, and neither that step
\* nor any step the call took before changes the snapshot ClassifyColumn
\* uses, so ClassifyColumn returns for every column name what it returned
\* before: a call changes the snapshot only in the assignment under the
\* write lock, which a call whose patterns do not all compile never reaches
C9_FailedReloadKeepsSnapshot ==
    [][\A r \in ReloadIds :
          /\ ReloadStep(r) /\ reloads[r].pc = "SetPatterns"
                /\ SetPatternsFails(reloads[r].patterns) =>
                /\ last' = Returned(reloads[r].op, "", "nil", FALSE,
                                    "failed to prepare classifier")
                /\ reloads'[r] = IdleReload
          /\ ReloadStep(r) /\ reloads[r].pc # "swap" =>
                /\ Snapshot' = Snapshot
                /\ \A columnName \in ColumnNames :
                      ClassifyColumn(Snapshot', columnName) = ClassifyColumn(Snapshot, columnName)
          /\ reloads[r].pc = "swap" => ~SetPatternsFails(reloads[r].patterns)]_vars

\* C9's case: a call has just returned the error of its reload, the store
\* holds the pattern that does not compile, the snapshot does not
C9_Witness ==
    /\ ~last.ok
    /\ last.ret = "failed to prepare classifier"
    /\ \E row \in patternRows : ~Compiles(row.pattern)
    /\ Snapshot # <<>>
    /\ \A i \in 1..Len(Snapshot) : Compiles(Snapshot[i].pattern)

\* C10: the object s.matcher refers to, and the object a ClassifyColumn call
\* read from s.matcher, holds the whole of one result of GetActive, compiled
\* and sorted by priority; and no step changes an object that s.matcher or
\* such a call goes on referring to
C10_ReadersSeeCompleteSnapshot ==
    /\ [](/\ matcher # 0 => Complete(matcher)
          /\ \A r \in ReaderIds : readers[r].m # 0 => Complete(readers[r].m))
    /\ [][/\ matcher # 0 /\ matcher' = matcher => heap'[matcher] = heap[matcher]
          /\ \A r \in ReaderIds :
                readers[r].m # 0 /\ readers'[r].m = readers[r].m =>
                   heap'[readers[r].m] = heap[readers[r].m]]_vars

\* C10's case: a ClassifyColumn call holds the old snapshot while a reload
\* has already put the new one in its place
C10_Witness ==
    \E r \in ReaderIds :
        /\ readers[r].pc = "ClassifyColumn"
        /\ readers[r].m # 0
        /\ readers[r].m # matcher
        /\ heap[readers[r].m].patterns # Snapshot

(***************************************************************************)
(* The claims about ClassifyColumn, checked under SpecClassify.            *)
(***************************************************************************)
\* the step taken last is the return of a ClassifyColumn call
Answered == last.op = "ClassifyColumn" /\ last.ret = "nil"

\* strings.ToLower(strings.TrimSpace(columnName))
Normalized(columnName) == ToLower(TrimSpace(columnName))

\* C11: a ClassifyColumn call on a column name that is empty once trimmed
\* (the empty name, a name of spaces) returns N/A with score 0 and no matched
\* pattern, whatever the snapshot, one with a rule whose regex matches the
\* empty string included
C11_EmptyNameIsNA ==
    Answered /\ TrimSpace(last.columnName) = <<>> => last.result = NoMatch

\* C12: every ClassifyColumn result has information type N/A exactly when
\* its matched patterns are empty, whatever rules the Pattern Store holds;
\* and when no rule matches the result is N/A, score 0, no matched pattern
C12_NAIffNoMatchedPatterns ==
    Answered =>
        /\ last.result.informationType = InfoTypeNA <=> last.result.matchedPatterns = <<>>
        /\ Matches(last.snapshot, Normalized(last.columnName)) = <<>> => last.result = NoMatch

\* the rules of the snapshot of the call whose regex matches its normalized
\* name, and the places of matchedPatterns that hold a given pattern text
MatchingRules ==
    {i \in DOMAIN last.snapshot :
        MatchString(last.snapshot[i].regex, Normalized(last.columnName))}
Listed(text) ==
    {k \in DOMAIN last.result.matchedPatterns : last.result.matchedPatterns[k] = text}

\* C13 as stated: every ClassifyColumn call lists in matchedPatterns the
\* pattern text of each rule of the snapshot whose regex matches the
\* normalized name, once per matching rule, and no other text
C13_EveryMatchingRuleListed ==
    Answered =>
        /\ \A i \in DOMAIN last.snapshot :
              Cardinality(Listed(last.snapshot[i].pattern)) =
                 Cardinality({j \in MatchingRules :
                                last.snapshot[j].pattern = last.snapshot[i].pattern})
        /\ \A k \in DOMAIN last.result.matchedPatterns :
              \E i \in MatchingRules : last.snapshot[i].pattern = last.result.matchedPatterns[k]

\* C13, amended: the same for every call whose column name is not the empty
\* string; the call on the empty string returns no matched pattern, no rule
\* having been evaluated
C13_EveryMatchingRuleListedUnlessEmpty ==
    /\ Answered /\ last.columnName # <<>> => C13_EveryMatchingRuleListed
    /\ Answered /\ last.columnName = <<>> => last.result = NoMatch

\* C13's case: a call has returned with two rules matched and a third of the
\* snapshot not
C13_Witness ==
    /\ Answered
    /\ Cardinality(MatchingRules) >= 2
    /\ Cardinality(MatchingRules) < Len(last.snapshot)
    /\ Len(last.result.matchedPatterns) = Cardinality(MatchingRules)

\* C14: for every rule matching the normalized name of a call the score is
\* priority/100 plus 0.20 when the match is the whole name and 0.10 when it is
\* not, minus 0.10 exactly when the name contains one of the common words and
\* is shorter than 10 characters, clamped to [0, 1] (in hundredths here); and
\* the score returned lies in [0, 1]
C14_ScoreFormula ==
    Answered =>
        /\ \A i \in MatchingRules :
              LET name == Normalized(last.columnName)
                  rule == last.snapshot[i]
                  bonus == IF FindString(rule.regex, name) = name THEN 20 ELSE 10
                  penalty == IF (\E word \in commonWords : Contains(name, word))
                                   /\ Len(name) < 10
                             THEN 10 ELSE 0
              IN  calculateConfidenceScore(name, rule) = Clamp(rule.priority + bonus - penalty)
        /\ last.result.confidenceScore \in 0..100

\* the order of seq in which elements neither of which is less than the other
\* stay as they are in seq (what a stable sort gives)
StableOrder(seq, less) ==
    CHOOSE sorted \in OrderBy(seq, less) :
        \E q \in Perms(Len(seq)) :
            /\ sorted = [i \in 1..Len(seq) |-> seq[q[i]]]
            /\ \A i, j \in 1..Len(seq) :
                  i < j /\ <<q[i], q[j]>> \notin less => q[i] < q[j]

\* the matches of the call whose return is the step taken last, in snapshot
\* order, and in the order the claim gives them
LastMatches == Matches(last.snapshot, Normalized(last.columnName))
LastMatchesStable ==
    StableOrder(LastMatches, {ij \in (DOMAIN LastMatches) \X (DOMAIN LastMatches) :
                                 ScoreLess(LastMatches[ij[1]], LastMatches[ij[2]])})

\* C15: a ClassifyColumn call with a matching rule returns the type and
\* score of the rule with the highest score, the first of them in snapshot
\* order when several have it, and lists the matched patterns by descending
\* score, those of equal score in snapshot order
C15_BestMatchFirstInSnapshotOrder ==
    Answered /\ last.columnName # <<>> /\ LastMatches # <<>> =>
        /\ \A i \in DOMAIN LastMatches : last.result.confidenceScore >= LastMatches[i].score
        /\ LET first == CHOOSE i \in DOMAIN LastMatches :
                           /\ LastMatches[i].score = last.result.confidenceScore
                           /\ \A j \in 1..(i - 1) :
                                 LastMatches[j].score # last.result.confidenceScore
           IN  last.result.informationType = LastMatches[first].pattern.informationType
        /\ last.result.matchedPatterns =
              [i \in DOMAIN LastMatches |-> LastMatchesStable[i].pattern.pattern]

(***************************************************************************)
(* The claims about ClassifyColumn next to reloads, checked under          *)
(* SpecClassifier.                                                         *)
(***************************************************************************)
\* a ClassifyColumn call takes a step
ReaderStep == readers' # readers

C20_LockHeldOnlyForTheSwap ==
    /\ mu.writer # 0 =>
          /\ reloads[mu.writer].pc \in {"swap", "Unlock"}
          /\ reloads[mu.writer].pc = "swap" =>
                heap[reloads[mu.writer].c].patterns \in SetPatterns(reloads[mu.writer].patterns)
    /\ \A r \in ReloadIds :
          reloads[r].pc \in {"create", "update", "reloadMatcher", "SetPatterns", "Lock"} =>
             mu.writer # r

\* C20's case: a pattern call holds the write lock, about to put a compiled
\* Classifier of four rules in the place of the one of three
C20_Witness ==
    /\ mu.writer # 0
    /\ reloads[mu.writer].pc = "swap"
    /\ Len(heap[reloads[mu.writer].c].patterns) = 4
    /\ Len(Snapshot) = 3

(***************************************************************************)
(* The claim about calculateRiskLevel, checked under SpecRisk.             *)
(***************************************************************************)
\* the summaries the scan bodies have persisted
Persisted == {scans[id].summary : id \in {i \in ScanIds : scans[i].status = ScanStatusCompleted}}

\* C17: the risk level persisted with counts and totalColumns is low when
\* totalColumns is 0; otherwise, with highCount and medCount the sums of the
\* counts over the high-risk and the medium-risk types and pct their sum
\* times 100 over totalColumns, critical when highCount > 0 and pct > 20,
\* else high when highCount > 0 or pct > 15, else medium when medCount > 0 or
\* pct > 5, else low; and it is the level of the same counts without the
\* types of neither set
C17_RiskLevel ==
    \A s \in Persisted :
        LET counts == s.informationTypesCounts
            highCount == SumOver(counts, DOMAIN counts \cap highRiskTypes)
            medCount == SumOver(counts, DOMAIN counts \cap mediumRiskTypes)
            sensitive == [t \in DOMAIN counts \cap (highRiskTypes \cup mediumRiskTypes) |->
                             counts[t]]
        IN  /\ s.riskLevel =
                  IF s.totalColumns = 0 THEN "low"
                  ELSE IF highCount > 0 /\ (highCount + medCount) * 100 > 20 * s.totalColumns
                       THEN "critical"
                  ELSE IF highCount > 0 \/ (highCount + medCount) * 100 > 15 * s.totalColumns
                       THEN "high"
                  ELSE IF medCount > 0 \/ (highCount + medCount) * 100 > 5 * s.totalColumns
                       THEN "medium"
                  ELSE "low"
            /\ s.riskLevel = calculateRiskLevel(sensitive, s.totalColumns)

\* C17's case: a summary is persisted with one high-risk column among five,
\* exactly 20 per cent, and a column of a type of neither set; its level is
\* high
C17_Witness ==
    \E s \in Persisted :
        /\ s.totalColumns = 5
        /\ "SSN" \in DOMAIN s.informationTypesCounts
        /\ s.informationTypesCounts["SSN"] = 1
        /\ "USERNAME" \in DOMAIN s.informationTypesCounts
        /\ "EMAIL_ADDRESS" \notin DOMAIN s.informationTypesCounts
        /\ s.riskLevel = "high"

(***************************************************************************)
(* The claim about the summary of a scan, checked under Spec.              *)
(***************************************************************************)
\* C18: in every record whose status is completed, the summary counts the
\* stored tree: totalSchemas, totalTables and totalColumns are the numbers
\* of its schemas, tables and columns; classifiedColumns is the number of
\* columns whose type is not N/A, is the sum of informationTypesCounts and is
\* at most totalColumns; informationTypesCounts has a key for each type
\* other than N/A some column has, with the number of those columns; and
\* riskLevel is calculateRiskLevel of the counts and totalColumns
C18_SummaryCountsTheTree ==
    \A id \in ScanIds :
        scans[id].status = ScanStatusCompleted =>
            LET tree == scans[id].schemas
                s == scans[id].summary
                counts == s.informationTypesCounts
                tables == {st \in (DOMAIN tree) \X (1..MaxColumns) :
                              st[2] \in DOMAIN tree[st[1]].tables}
                columns == {stc \in tables \X (1..MaxColumns) :
                               stc[2] \in DOMAIN tree[stc[1][1]].tables[stc[1][2]].columns}
                typeOf(stc) ==
                    tree[stc[1][1]].tables[stc[1][2]].columns[stc[2]].informationType
                classified == {stc \in columns : typeOf(stc) # InfoTypeNA}
            IN  /\ s.totalSchemas = Len(tree)
                /\ s.totalTables = Cardinality(tables)
                /\ s.totalColumns = Cardinality(columns)
                /\ s.classifiedColumns = Cardinality(classified)
                /\ s.classifiedColumns = SumOver(counts, DOMAIN counts)
                /\ s.classifiedColumns <= s.totalColumns
                /\ DOMAIN counts = {typeOf(stc) : stc \in classified}
                /\ \A t \in DOMAIN counts :
                      counts[t] = Cardinality({stc \in classified : typeOf(stc) = t})
                /\ s.riskLevel = calculateRiskLevel(counts, s.totalColumns)

\* C18's case: a completed record whose tree has a column of type N/A and two
\* columns of one type, in different schemas
C18_Witness ==
    \E id \in ScanIds :
        /\ scans[id].status = ScanStatusCompleted
        /\ scans[id].summary.classifiedColumns < scans[id].summary.totalColumns
        /\ \E t \in DOMAIN scans[id].summary.informationTypesCounts :
              scans[id].summary.informationTypesCounts[t] = 2
        /\ Len(scans[id].schemas) = 2

(***************************************************************************)
(* The claims about the scan body and the stored record, checked under     *)
(* Spec.                                                                   *)
(***************************************************************************)
\* C21: once performScan has returned, with or without an error, the
\* session of its inspector is not open; and a session is opened only by
\* Connect, closed only when open, and neither opened nor closed again: it
\* is closed exactly once
C21_SessionClosedOnEveryExit ==
    /\ [](\A id \in ScanIds :
             body[id].pc \in {"setFailed", "done"} =>
                /\ body[id].session # "open"
                /\ body[id].session = "none" => Len(body[id].calls) <= 1)
    /\ [][\A id \in ScanIds :
             body'[id].session # body[id].session =>
                \/ /\ body[id].session = "none" /\ body'[id].session = "open"
                   /\ body[id].pc = "connect"
                \/ /\ body[id].session = "open" /\ body'[id].session = "closed"
                   /\ body'[id].pc \in {"setFailed", "done"}]_vars

\* C21's case: a body has returned an error after its session was opened,
\* another has returned without error, and both sessions are closed
C21_Witness ==
    \E id, other \in ScanIds :
        /\ body[id].pc = "done" /\ body[id].err = "failed to get table info"
        /\ body[id].session = "closed"
        /\ body[other].pc = "done" /\ body[other].err = ""
        /\ body[other].session = "closed"

\* C22: the step that calls UpdateLastScannedAt, failing or not, writes
\* nothing to the record, ends the body without an error and is followed by
\* no write of the body; and a body comes to that step only by the write of
\* its completed result having succeeded, never after an error
C22_LastScannedFailureIsNotAScanFailure ==
    /\ [](\A id \in ScanIds :
             /\ body[id].pc = "updateLastScannedAt" =>
                   body[id].err = "" /\ body[id].scanResult.status = ScanStatusCompleted
             /\ body[id].warning # "" => body[id].pc = "done" /\ body[id].err = "")
    /\ [][\A id \in ScanIds :
             /\ BodyStep(id) /\ body[id].pc = "updateLastScannedAt" =>
                   /\ scans'[id] = scans[id]
                   /\ body'[id].pc = "done"
                   /\ body'[id].err = ""
             /\ BodyStep(id) /\ body'[id].pc = "updateLastScannedAt" =>
                   /\ body[id].pc = "persist"
                   /\ scans'[id] = Update(scans[id], body'[id].scanResult)
                   /\ scans'[id].status = ScanStatusCompleted
             /\ body[id].pc = "done" => body'[id] = body[id]]_vars

\* C22's case: a body has ended, its last-scanned update failed, and the
\* record is completed
C22_Witness ==
    \E id \in ScanIds :
        /\ body[id].pc = "done"
        /\ body[id].warning = "failed to update last scanned time"
        /\ scans[id].status = ScanStatusCompleted
        /\ scans[id].errorMessage = ""

\* the stored trees of the Completed scans
CompletedTrees == {scans[id].schemas : id \in {i \in ScanIds : scans[i].status = ScanStatusCompleted}}

Rule(p) == [informationType |-> p.informationType, pattern |-> p.pattern, priority |-> p.priority]

\* C24: once every pattern create, update and delete call has returned,
\* all of them without an error, the snapshot ClassifyColumn uses holds
\* exactly the active rules of the Pattern Store, also when calls ran
\* concurrently
C24_SnapshotIsTheStore ==
    (\A r \in DOMAIN reloads : reloads[r].pc = "idle") =>
        {Rule(Snapshot[i]) : i \in 1..Len(Snapshot)} =
            {Rule(row) : row \in {x \in patternRows : x.isActive}}

(***************************************************************************)
(* The claim about a pattern that does not compile, checked under          *)
(* SpecClassifier.                                                         *)
(***************************************************************************)
\* C25: when a CreatePattern or UpdatePattern call returns the error of the
\* compilation, the Pattern Store holds the active rules it held before the
\* call: no row carries the pattern a CreatePattern call was asked to
\* create (ExistsByPattern found none when the call began), and every
\* active rule of the store compiles, so that the reload of a later
\* mutation does not fail
C25_CompileErrorLeavesTheStore ==
    [][\A r \in ReloadIds :
          (/\ ReloadStep(r)
           /\ reloads[r].pc = "SetPatterns"
           /\ reloads[r].op \in {"CreatePattern", "UpdatePattern"}
           /\ last' = Returned(reloads[r].op, "", "nil", FALSE, "failed to prepare classifier")) =>
                /\ reloads[r].op = "CreatePattern" =>
                      \A row \in patternRows' : row.pattern # reloads[r].req.pattern
                /\ \A patterns \in GetActive(patternRows') : ~SetPatternsFails(patterns)]_vars

(***************************************************************************)
(* The claims about the fields of the stored record, checked under Spec.   *)
(***************************************************************************)
\* C26 as stated: a stored record holds a non-empty schema tree only if its
\* stored status is Completed
C26_TreeOnlyIfCompleted ==
    \A id \in ScanIds : scans[id].schemas # <<>> => scans[id].status = ScanStatusCompleted

\* C26, amended: a stored record holds a non-empty schema tree only if its
\* status is Completed or Cancelled; the tree is written only by the Update
\* of the scan body, together with Completed, and the status of a record
\* with a tree changes only from Completed to Cancelled, by the UpdateStatus
\* of a CancelScan call that read Pending or Running before (last writer
\* wins)
C26_TreeOnlyAfterCompleted ==
    /\ [](\A id \in ScanIds :
             scans[id].schemas # <<>> =>
                scans[id].status \in {ScanStatusCompleted, ScanStatusCancelled})
    /\ [][\A id \in ScanIds :
             /\ scans'[id].schemas # scans[id].schemas =>
                   /\ BodyStep(id)
                   /\ body[id].pc = "persist"
                   /\ scans'[id].status = ScanStatusCompleted
             /\ scans[id].schemas # <<>> /\ scans'[id].status # scans[id].status =>
                   /\ scans[id].status = ScanStatusCompleted
                   /\ scans'[id].status = ScanStatusCancelled
                   /\ CancelWrite(id)]_vars

\* C26's case: between the Update of the body and its last-scanned update,
\* a CancelScan call that had read Running wrote Cancelled: the record is
\* Cancelled with the fixed message and holds the tree of the scan
C26_Witness ==
    \E id \in ScanIds :
        /\ body[id].pc = "updateLastScannedAt"
        /\ scans[id].status = ScanStatusCancelled
        /\ scans[id].errorMessage = CancelMessage
        /\ Len(scans[id].schemas) = Len(SourceSchemas)

\* C27: the stored completedAt of a record is set if and only if its stored
\* status is Completed, Failed or Cancelled, whichever of the scan body and
\* CancelScan wrote last
C27_CompletedAtIffTerminal ==
    \A id \in ScanIds :
        scans[id].status # Absent =>
            (scans[id].completedAt <=> scans[id].status \in Terminal)

\* C27's case: one scan was cancelled before its body began and carries a
\* completedAt; the body of another has written Running over the Cancelled of
\* a CancelScan, or never was cancelled, and is at work with no completedAt
C27_Witness ==
    \E a, b \in ScanIds :
        /\ body[a].pc = "setRunning"
        /\ scans[a].status = ScanStatusCancelled
        /\ scans[a].completedAt
        /\ body[b].pc = "getTableInfo"
        /\ scans[b].status = ScanStatusRunning
        /\ ~scans[b].completedAt

\* C28: the stored errorMessage of a record is non-empty if and only if its
\* stored status is Failed or Cancelled, and that of a Cancelled record is
\* the fixed message of CancelScan
C28_ErrorMessageIffFailedOrCancelled ==
    \A id \in ScanIds :
        scans[id].status # Absent =>
            /\ scans[id].errorMessage # "" <=>
                  scans[id].status \in {ScanStatusFailed, ScanStatusCancelled}
            /\ scans[id].status = ScanStatusCancelled => scans[id].errorMessage = CancelMessage

\* C28's case: the body of a scan wrote Completed over the Cancelled of a
\* CancelScan, or was never cancelled, and its record has no message; the
\* record of another scan is Failed with the error of its body, a late
\* CancelScan on it still to write
C28_Witness ==
    \E a, b \in ScanIds :
        /\ scans[a].status = ScanStatusCompleted
        /\ scans[a].errorMessage = ""
        /\ scans[b].status = ScanStatusFailed
        /\ scans[b].errorMessage = "failed to get schemas"
        /\ cancels[b][ScanStatusRunning] > 0

(***************************************************************************)
(* The claim about a scan during pattern mutations, checked under          *)
(* SpecScanReload.                                                         *)
(***************************************************************************)
\* the states the Pattern Store goes through, and the snapshots compiled
\* from those whose rules all compile
Stores ==
    {SeedPatterns, WideStore} \cup
    {SeedPatterns \cup {ClassificationPattern("p4", req.informationType, req.pattern,
                                              req.priority, 4)} : req \in Requests}
Snapshots ==
    UNION {UNION {SetPatterns(patterns) : patterns \in GetActive(rows)} :
              rows \in {st \in Stores : \A row \in st : Compiles(row.pattern)}}

\* the table results in seq, a sequence of schema results
RECURSIVE TablesOf(_)
TablesOf(seq) == IF seq = <<>> THEN <<>> ELSE Head(seq).tables \o TablesOf(Tail(seq))

\* the table results the body b has gathered so far: those of the schemas
\* it has finished, and inside the loop over the tables of a schema those
\* of that schema
Gathered(b) ==
    TablesOf(b.schemaResults) \o (IF b.pc = "getTableInfo" THEN b.tableResults ELSE <<>>)

\* every column of the table result was classified against snapshot
ClassifiedAgainst(tableResult, snapshot) ==
    \A c \in 1..Len(tableResult.columns) :
        LET col == tableResult.columns[c]
        IN  \E r \in ClassifyColumn(snapshot, col.columnName) :
               /\ col.informationType = r.informationType
               /\ col.confidenceScore = r.confidenceScore
               /\ col.matchedPatterns = r.matchedPatterns

C30_LowAndHighRisk ==
    \A s \in Persisted :
        LET counts == s.informationTypesCounts
            highCount == SumOver(counts, DOMAIN counts \cap highRiskTypes)
            medCount == SumOver(counts, DOMAIN counts \cap mediumRiskTypes)
        IN  s.totalColumns > 0 =>
               /\ s.riskLevel = "low" <=> (highCount = 0 /\ medCount = 0)
               /\ highCount > 0 => s.riskLevel \in {"critical", "high"}

\* C30's case: one high-risk column among the most columns a scan has, the
\* lowest percentage there is, and no medium-risk column: the level is high
C30_Witness ==
    \E s \in Persisted :
        /\ s.totalColumns = MaxColumns
        /\ DOMAIN s.informationTypesCounts = {"SSN"}
        /\ s.informationTypesCounts["SSN"] = 1
        /\ s.riskLevel = "high"

=============================================================================
